---- MODULE Spec2Model ----
(***************************************************************************)
(* Model of src/black_scholes.cpp: the Black-Scholes call/put calculator.  *)
(*                                                                         *)
(* The program computes in IEEE-754 binary64.  The model keeps the IEEE    *)
(* semantics (signed zeros, infinities, NaN, round-to-nearest-even after   *)
(* every operation) in a binary format scaled down to Precision            *)
(* significand bits, with values that are multiples of 2^-FracBits and     *)
(* smaller than 2^(MaxExp+1), so that every operation is computed on       *)
(* integers TLC can hold.                                                  *)
(***************************************************************************)
EXTENDS Integers, Sequences, FiniteSets

(***************************************************************************)
(* The floating-point format.                                              *)
(***************************************************************************)
Precision == 6
FracBits == 14
MaxExp == 8

\* Largest finite magnitude, in units of 2^-FracBits.
MaxN == (2^Precision - 1) * 2^(MaxExp - Precision + 1 + FracBits)
MaxBits == MaxExp + 1 + FracBits

Fin(s, n) == [k |-> "fin", s |-> s, n |-> n]
Inf(s) == [k |-> "inf", s |-> s, n |-> 0]
NaN == [k |-> "nan", s |-> 0, n |-> 0]

IsNaN(x) == x.k = "nan"
IsInf(x) == x.k = "inf"
IsFinite(x) == x.k = "fin"
IsZero(x) == x.k = "fin" /\ x.n = 0

Max(a, b) == IF a >= b THEN a ELSE b
Abs(a) == IF a >= 0 THEN a ELSE -a

RECURSIVE BitLen(_)
BitLen(a) == IF a = 0 THEN 0 ELSE 1 + BitLen(a \div 2)

\* n = Mant(n) * 2^Shift(n) with Mant(n) odd (or n = 0).
RECURSIVE Shift(_)
Shift(n) == IF n = 0 \/ n % 2 = 1 THEN 0 ELSE 1 + Shift(n \div 2)
Mant(n) == n \div 2^Shift(n)

\* The finite values of the format: at most Precision significant bits.
Representable(n) == n >= 0 /\ n <= MaxN /\ BitLen(Mant(n)) <= Precision

\* (A + sticky) * 2^sh units, rounded to nearest, ties to even; A < 2^30.
RoundBits(s, A, sh, sticky) ==
    LET L == BitLen(A)
        d == Max(-sh, L - Precision)
    IN  IF A = 0 THEN Fin(s, 0)
        ELSE IF L + sh > MaxBits + 1 THEN Inf(s)
        ELSE IF d <= 0
             THEN IF A * 2^sh > MaxN THEN Inf(s) ELSE Fin(s, A * 2^sh)
        ELSE IF d > L THEN Fin(s, 0)
        ELSE LET q == A \div 2^d
                 r == A % 2^d
                 half == 2^(d - 1)
                 up == IF r > half \/ (r = half /\ (sticky \/ q % 2 = 1))
                       THEN 1 ELSE 0
                 n == (q + up) * 2^(sh + d)
             IN  IF n > MaxN THEN Inf(s) ELSE Fin(s, n)

\* Smallest t >= 0 with A * 2^t >= B * 2^(Precision + 2); A > 0.
RECURSIVE ShiftFor(_, _)
ShiftFor(A, B) == IF A >= B * 2^(Precision + 2) THEN 0 ELSE 1 + ShiftFor(2 * A, B)

\* (A / B) * 2^sh units, correctly rounded; A >= 0, B > 0.
RoundRat(s, A, B, sh) ==
    IF A = 0 THEN Fin(s, 0)
    ELSE LET t == ShiftFor(A, B)
             q == (A * 2^t) \div B
             rem == (A * 2^t) % B
         IN  RoundBits(s, q, sh - t, rem # 0)

\* The signed integer a finite value stands for, in units of 2^-FracBits.
SVal(x) == IF x.s = 1 THEN -x.n ELSE x.n

Neg(x) == IF IsNaN(x) THEN NaN ELSE [x EXCEPT !.s = 1 - x.s]

\* x + y
Add(x, y) ==
    IF IsNaN(x) \/ IsNaN(y) THEN NaN
    ELSE IF IsInf(x) /\ IsInf(y) THEN (IF x.s = y.s THEN x ELSE NaN)
    ELSE IF IsInf(x) THEN x
    ELSE IF IsInf(y) THEN y
    ELSE LET v == SVal(x) + SVal(y)
         IN  IF v = 0 THEN Fin(IF x.s = 1 /\ y.s = 1 THEN 1 ELSE 0, 0)
             ELSE RoundBits(IF v < 0 THEN 1 ELSE 0, Abs(v), 0, FALSE)

\* x - y
Sub(x, y) == Add(x, Neg(y))

\* x * y
Mul(x, y) ==
    LET s == (x.s + y.s) % 2
    IN  IF IsNaN(x) \/ IsNaN(y) THEN NaN
        ELSE IF IsInf(x) \/ IsInf(y)
             THEN IF IsZero(x) \/ IsZero(y) THEN NaN ELSE Inf(s)
        ELSE RoundBits(s, Mant(x.n) * Mant(y.n),
                       Shift(x.n) + Shift(y.n) - FracBits, FALSE)

\* x / y
Div(x, y) ==
    LET s == (x.s + y.s) % 2
    IN  IF IsNaN(x) \/ IsNaN(y) THEN NaN
        ELSE IF IsInf(x) THEN (IF IsInf(y) THEN NaN ELSE Inf(s))
        ELSE IF IsInf(y) THEN Fin(s, 0)
        ELSE IF IsZero(y) THEN (IF IsZero(x) THEN NaN ELSE Inf(s))
        ELSE RoundRat(s, Mant(x.n), Mant(y.n),
                      Shift(x.n) - Shift(y.n) + FracBits)

\* x < y and x <= y as the C++ comparison operators decide them.
Lt(x, y) ==
    /\ ~IsNaN(x) /\ ~IsNaN(y)
    /\ IF IsInf(x) THEN x.s = 1 /\ ~(IsInf(y) /\ y.s = 1)
       ELSE IF IsInf(y) THEN y.s = 0
       ELSE SVal(x) < SVal(y)
Eq(x, y) ==
    /\ ~IsNaN(x) /\ ~IsNaN(y)
    /\ IF IsInf(x) \/ IsInf(y) THEN x = y ELSE SVal(x) = SVal(y)
Le(x, y) == Lt(x, y) \/ Eq(x, y)

\* A whole number as the format holds it (a literal such as 365.0 is rounded).
FromInt(i) == RoundBits(IF i < 0 THEN 1 ELSE 0, Abs(i), FracBits, FALSE)

(***************************************************************************)
(* <cmath>.  sqrt is correctly rounded, as IEEE-754 requires.  exp, log    *)
(* and erf are computed in fixed point with KBits fractional bits and then *)
(* rounded to the format; over the whole format as defined above each      *)
(* returns the correctly rounded value of the mathematical function, and   *)
(* erf is odd and exp, log, erf are monotone.  The kernels are valid for   *)
(* Precision <= 8 (erf is 1 within half an ulp from 2.25 on).              *)
(***************************************************************************)
KBits == 20
HBits == 10
One == 2^KBits
\* ln 2, sqrt 2 and 2/sqrt(pi) with KBits fractional bits.
Ln2 == 726817
Sqrt2 == 1482910
TwoOverSqrtPi == 1183191

\* a * b of two fixed-point magnitudes, truncated.
MulFix(a, b) ==
    LET ah == a \div 2^HBits
        al == a % 2^HBits
        bh == b \div 2^HBits
        bl == b % 2^HBits
    IN  ah * bh + (ah * bl + al * bh) \div 2^HBits + (al * bl) \div 2^KBits

MulFixS(a, b) ==
    IF (a < 0) = (b < 0) THEN MulFix(Abs(a), Abs(b)) ELSE -MulFix(Abs(a), Abs(b))

\* floor(r * 2^k / b) for 0 <= r < b.
RECURSIVE LongDiv(_, _, _)
LongDiv(r, b, k) ==
    IF k = 0 THEN 0
    ELSE ((2 * r) \div b) * 2^(k - 1) + LongDiv((2 * r) % b, b, k - 1)

\* floor(sqrt(a))
RECURSIVE ISqrtFrom(_, _, _)
ISqrtFrom(a, lo, hi) ==
    IF hi - lo <= 1 THEN lo
    ELSE LET mid == (lo + hi) \div 2
         IN  IF mid * mid <= a THEN ISqrtFrom(a, mid, hi) ELSE ISqrtFrom(a, lo, mid)
ISqrt(a) == ISqrtFrom(a, 0, 2^15)

\* sqrt(x)
Sqrt(x) ==
    IF IsNaN(x) THEN NaN
    ELSE IF IsZero(x) THEN x
    ELSE IF x.s = 1 THEN NaN
    ELSE IF IsInf(x) THEN x
    ELSE LET j0 == Shift(x.n) + FracBits
             odd == j0 % 2 = 1
             m == IF odd THEN 2 * Mant(x.n) ELSE Mant(x.n)
             j == IF odd THEN j0 - 1 ELSE j0
             t == Precision + 2
             X == m * 4^t
             r == ISqrt(X)
         IN  RoundBits(0, r, j \div 2 - t, r * r # X)

\* 1 + r + r^2/2! + ... + r^8/8!, in Horner form from term i on.
RECURSIVE ExpSeries(_, _)
ExpSeries(r, i) ==
    IF i > 8 THEN One ELSE One + MulFixS(r, ExpSeries(r, i + 1)) \div i

\* exp(x) = 2^k * exp(r) with x = k ln 2 + r, |r| <= (ln 2)/2
Exp(x) ==
    IF IsNaN(x) THEN NaN
    ELSE IF IsInf(x) THEN (IF x.s = 0 THEN Inf(0) ELSE Fin(0, 0))
    ELSE IF IsZero(x) THEN FromInt(1)
    ELSE IF x.n >= 32 * 2^FracBits THEN (IF x.s = 0 THEN Inf(0) ELSE Fin(0, 0))
    ELSE LET X == SVal(x) * 2^(KBits - FracBits)
             k == (X + Ln2 \div 2) \div Ln2
             r == X - k * Ln2
         IN  RoundBits(0, ExpSeries(r, 1), k - KBits + FracBits, TRUE)

\* 1/i + z2/(i+2) + z2^2/(i+4) + ... up to the term over 13.
RECURSIVE LogSeries(_, _)
LogSeries(z2, i) ==
    IF i > 13 THEN 0 ELSE One \div i + MulFix(z2, LogSeries(z2, i + 2))

\* log(x) = e ln 2 + log(u) with x = u 2^e, u in (sqrt(1/2), sqrt(2)],
\* log(u) = 2 atanh(z), z = (u - 1)/(u + 1)
Log(x) ==
    IF IsNaN(x) THEN NaN
    ELSE IF IsZero(x) THEN Inf(1)
    ELSE IF x.s = 1 THEN NaN
    ELSE IF IsInf(x) THEN x
    ELSE LET m == Mant(x.n)
             U0 == m * 2^(KBits - (BitLen(m) - 1))
             e0 == BitLen(x.n) - 1 - FracBits
             big == U0 > Sqrt2
             U == IF big THEN U0 \div 2 ELSE U0
             e == IF big THEN e0 + 1 ELSE e0
             a == U - One
             zm == LongDiv(Abs(a), U + One, KBits)
             z == IF a < 0 THEN -zm ELSE zm
             lu == 2 * MulFixS(z, LogSeries(MulFix(zm, zm), 1))
             R == e * Ln2 + lu
         IN  IF R = 0 THEN Fin(0, 0)
             ELSE RoundBits(IF R < 0 THEN 1 ELSE 0, Abs(R), FracBits - KBits, TRUE)

\* sum over n >= i of (-1)^(n-i) x^(2n) / (n! (2n+1)), t = x^(2i)/i!
RECURSIVE ErfSeries(_, _, _)
ErfSeries(x2, i, t) ==
    IF i > 24 THEN 0
    ELSE t \div (2 * i + 1) - ErfSeries(x2, i + 1, MulFix(t, x2) \div (i + 1))

\* erf(x) = (2/sqrt(pi)) x (1 - x^2/3 + x^4/10 - ...), odd in x
Erf(x) ==
    IF IsNaN(x) THEN NaN
    ELSE IF IsInf(x) THEN Fin(x.s, 2^FracBits)
    ELSE IF IsZero(x) THEN x
    ELSE IF 4 * x.n >= 9 * 2^FracBits THEN Fin(x.s, 2^FracBits)
    ELSE LET X == x.n * 2^(KBits - FracBits)
             G == ErfSeries(MulFix(X, X), 0, One)
             H == MulFix(G, TwoOverSqrtPi)
         IN  RoundBits(x.s, Mant(x.n) * H, Shift(x.n) - KBits, TRUE)

\* pow(x, 2.0): the square, rounded once.
Pow2(x) == Mul(x, x)

(***************************************************************************)
(* strtod.  A string is a sequence of characters.  The subject sequence is *)
(* optional white space, an optional sign, then "inf", "nan", or decimal   *)
(* digits with an optional point and an optional exponent; when no         *)
(* conversion can be performed the result is zero.  Hexadecimal input and  *)
(* strings of more than MaxDigits digits are not modelled.                 *)
(***************************************************************************)
Digits == <<"0", "1", "2", "3", "4", "5", "6", "7", "8", "9">>
IsDigit(c) == \E i \in 1..10 : Digits[i] = c
DigitVal(c) == (CHOOSE i \in 1..10 : Digits[i] = c) - 1
IsSpace(c) == c \in {" ", "\t", "\n"}
Lower(c) == CASE c = "I" -> "i" [] c = "N" -> "n" [] c = "F" -> "f"
              [] c = "A" -> "a" [] c = "E" -> "e" [] OTHER -> c

CharAt(str, i) == IF i <= Len(str) THEN str[i] ELSE "$end"

RECURSIVE SkipSpace(_, _)
SkipSpace(str, i) ==
    IF IsSpace(CharAt(str, i)) THEN SkipSpace(str, i + 1) ELSE i

\* <<value of the digits read, how many, index after them>>
RECURSIVE ReadDigits(_, _, _, _)
ReadDigits(str, i, acc, cnt) ==
    IF IsDigit(CharAt(str, i))
    THEN ReadDigits(str, i + 1, 10 * acc + DigitVal(str[i]), cnt + 1)
    ELSE <<acc, cnt, i>>

StartsWith(str, i, word) ==
    \A j \in 1..Len(word) : Lower(CharAt(str, i + j - 1)) = word[j]

\* digits * 10^dexp, correctly rounded; digits > 0
Decimal(s, digits, dexp) ==
    IF dexp >= 0
    THEN IF BitLen(digits) - 1 + 3 * dexp >= MaxExp + 2 THEN Inf(s)
         ELSE RoundBits(s, digits * 10^dexp, FracBits, FALSE)
    ELSE IF -dexp > 6 THEN Fin(s, 0)
    ELSE RoundRat(s, digits, 10^(-dexp), FracBits)

\* strtod with `none` as the result when no conversion is performed.
StrtodOr(str, none) ==
    LET i0 == SkipSpace(str, 1)
        c0 == CharAt(str, i0)
        s == IF c0 = "-" THEN 1 ELSE 0
        i1 == IF c0 \in {"-", "+"} THEN i0 + 1 ELSE i0
        ip == ReadDigits(str, i1, 0, 0)
        point == CharAt(str, ip[3]) = "."
        fp == IF point THEN ReadDigits(str, ip[3] + 1, ip[1], 0)
              ELSE <<ip[1], 0, ip[3]>>
        i2 == fp[3]
        hasE == Lower(CharAt(str, i2)) = "e"
        es == IF hasE /\ CharAt(str, i2 + 1) = "-" THEN 1 ELSE 0
        i3 == IF hasE /\ CharAt(str, i2 + 1) \in {"-", "+"} THEN i2 + 2 ELSE i2 + 1
        ep == IF hasE THEN ReadDigits(str, i3, 0, 0) ELSE <<0, 0, i2>>
        ex == IF ep[2] = 0 THEN 0 ELSE IF es = 1 THEN -ep[1] ELSE ep[1]
    IN  IF StartsWith(str, i1, <<"i", "n", "f">>) THEN Inf(s)
        ELSE IF StartsWith(str, i1, <<"n", "a", "n">>) THEN NaN
        ELSE IF ip[2] + fp[2] = 0 THEN none
        ELSE IF fp[1] = 0 THEN Fin(s, 0)
        ELSE Decimal(s, fp[1], ex - fp[2])

\* A faulty variant: a string without a number yields NaN instead of zero.
Strtod_NaNOnFailure(str) == StrtodOr(str, NaN)

\* strtod(str, nullptr): "If no conversion is performed, zero is returned."
Strtod(str) == StrtodOr(str, Fin(0, 0))

\* Whether strtod performs a conversion on str at all.
Converts(str) ==
    LET i0 == SkipSpace(str, 1)
        i1 == IF CharAt(str, i0) \in {"-", "+"} THEN i0 + 1 ELSE i0
        ip == ReadDigits(str, i1, 0, 0)
        fp == IF CharAt(str, ip[3]) = "." THEN ReadDigits(str, ip[3] + 1, 0, 0)
              ELSE <<0, 0, ip[3]>>
    IN  \/ StartsWith(str, i1, <<"i", "n", "f">>)
        \/ StartsWith(str, i1, <<"n", "a", "n">>)
        \/ ip[2] + fp[2] > 0

(***************************************************************************)
(* The pricing functions.                                                  *)
(***************************************************************************)
Half == Fin(0, 2^(FracBits - 1))
\* M_SQRT1_2, the literal 0.70710678118654752440 rounded to the format.
M_SQRT1_2 == RoundRat(0, 70711, 100000, FracBits)

\* A faulty variant: 0.5 * 1 + erf(...), the parentheses lost.
cdf_Unparenthesised(value) ==
    Add(Mul(Half, FromInt(1)), Erf(Mul(value, M_SQRT1_2)))

cdf_normal_distribution(value) ==
    Mul(Half, Add(FromInt(1), Erf(Mul(value, M_SQRT1_2))))

BS_d1(stock_price, strike_price, days_to_expiration, volatility, risk_free_rate) ==
    Div(Add(Log(Div(stock_price, strike_price)),
            Mul(Add(risk_free_rate, Div(Pow2(volatility), FromInt(2))),
                days_to_expiration)),
        Mul(volatility, Sqrt(days_to_expiration)))

BS_d2(d1, days_to_expiration, volatility) ==
    Sub(d1, Mul(volatility, Sqrt(days_to_expiration)))

\* A faulty variant: a guard returns 0 when the time to expiration or the volatility is not positive.
calculate_call_price_Clamped(stock_price, strike_price, days_to_expiration, volatility, risk_free_rate) ==
    IF ~Lt(FromInt(0), days_to_expiration) \/ ~Lt(FromInt(0), volatility)
    THEN FromInt(0)
    ELSE LET d1 == BS_d1(stock_price, strike_price, days_to_expiration, volatility, risk_free_rate)
             d2 == BS_d2(d1, days_to_expiration, volatility)
         IN  Sub(Mul(cdf_normal_distribution(d1), stock_price),
                 Mul(Mul(cdf_normal_distribution(d2), strike_price),
                     Exp(Mul(Neg(risk_free_rate), days_to_expiration))))

calculate_call_price(stock_price, strike_price, days_to_expiration, volatility, risk_free_rate) ==
    LET d1 == BS_d1(stock_price, strike_price, days_to_expiration, volatility, risk_free_rate)
        d2 == BS_d2(d1, days_to_expiration, volatility)
    IN  Sub(Mul(cdf_normal_distribution(d1), stock_price),
            Mul(Mul(cdf_normal_distribution(d2), strike_price),
                Exp(Mul(Neg(risk_free_rate), days_to_expiration))))

\* A faulty variant: calculate_put_price converts the days to years again.
PutDelegates_Reconverts(stock_price, strike_price, days_to_expiration, volatility, risk_free_rate) ==
    <<stock_price, strike_price, Div(days_to_expiration, FromInt(365)), volatility,
      risk_free_rate>>

\* The arguments calculate_put_price hands on to calculate_call_price.
PutDelegates(stock_price, strike_price, days_to_expiration, volatility, risk_free_rate) ==
    <<stock_price, strike_price, days_to_expiration, volatility, risk_free_rate>>

\* A faulty variant: the discounted strike computed as K * exp(-r*T).
calculate_put_price_Multiplies(stock_price, strike_price, days_to_expiration, volatility, risk_free_rate) ==
    Sub(Add(calculate_call_price(stock_price, strike_price, days_to_expiration,
                                 volatility, risk_free_rate),
            Mul(strike_price, Exp(Mul(Neg(risk_free_rate), days_to_expiration)))),
        stock_price)

calculate_put_price(stock_price, strike_price, days_to_expiration, volatility, risk_free_rate) ==
    LET a == PutDelegates(stock_price, strike_price, days_to_expiration, volatility, risk_free_rate)
    IN  Sub(Add(calculate_call_price(a[1], a[2], a[3], a[4], a[5]),
                Div(strike_price, Exp(Mul(risk_free_rate, days_to_expiration)))),
            stock_price)

(***************************************************************************)
(* main.                                                                   *)
(***************************************************************************)
VARIABLES
    argc,                \* argument count, the program name included (0 when the caller passes none)
    argv,                \* argv[1] .. argv[argc-1]
    pc,                  \* main's position
    stock_price, strike_price, days_to_expiration, volatility, risk_free_rate,
    cout,                \* standard output: the lines written and the stream's format state
    cerr,                \* standard error: the lines written
    exit_status,         \* <<>> while running, <<status>> once the process has ended
    calls,               \* the pricing functions entered so far, with their arguments
    value, other,        \* arguments of cdf_normal_distribution under evaluation
    results,             \* and the values returned for them
    args,                \* arguments of the pricing functions under evaluation
    call_price, put_price

mainVars == <<argc, argv, pc, stock_price, strike_price, days_to_expiration,
              volatility, risk_free_rate, cout, cerr, exit_status, calls>>
fnVars == <<value, other, results, args, call_price, put_price>>
vars == <<mainVars, fnVars>>

\* A variable that holds no value yet.
Unset == [k |-> "unset", s |-> 0, n |-> 0]

MaxArgc == 7

\* The strings tried as the i-th argument.
ArgChoices(i) ==
    CASE i = 1 -> {<<"1", "0", "0">>, <<"9", "0">>, <<"a", "b", "c">>}
      [] i = 2 -> {<<"1", "0", "0">>, <<"5", "0", "x">>, <<>>}
      [] i = 3 -> {<<"3", "6", "5">>, <<"0">>, <<"-", "d">>}
      [] i = 4 -> {<<"2", "0">>, <<"1", "2", ".", "5">>, <<"0", ".", "0">>, <<".">>}
      [] i = 5 -> {<<"5">>, <<"-", "8">>, <<" ", "1", "e", "1">>, <<"%">>}
      [] OTHER -> {<<"7">>}

\* The argument vectors of n arguments.
RECURSIVE ArgVectors(_)
ArgVectors(n) ==
    IF n = 0 THEN {<<>>}
    ELSE {Append(a, str) : a \in ArgVectors(n - 1), str \in ArgChoices(n)}

TextLine(text) ==
    [text |-> text, val |-> <<>>, precision |-> 0, floatfield |-> "none"]
\* cout << text << v << ...: v is written as the stream's format state says.
ValueLine(text, v) ==
    [text |-> text, val |-> <<v>>, precision |-> cout.precision,
     floatfield |-> cout.floatfield]
Write(lines) == [cout EXCEPT !.lines = cout.lines \o lines]

Called(fn, caller, a) == [fn |-> fn, caller |-> caller, args |-> a]

MainInit ==
    /\ argc \in 0..MaxArgc
    /\ argv \in ArgVectors(Max(0, argc - 1))
    /\ pc = "start"
    /\ stock_price = Unset /\ strike_price = Unset /\ days_to_expiration = Unset
    /\ volatility = Unset /\ risk_free_rate = Unset
    /\ cout = [lines |-> <<>>, precision |-> 6, floatfield |-> "default"]
    /\ cerr = <<>>
    /\ exit_status = <<>>
    /\ calls = <<>>

FnIdle ==
    /\ value = Fin(0, 0) /\ other = Fin(0, 0) /\ results = <<>>
    /\ args = <<>> /\ call_price = Unset /\ put_price = Unset

Init == MainInit /\ FnIdle

\* line 40
Banner ==
    /\ pc = "start"
    /\ cout' = Write(<<TextLine("Options pricing calculator based on the Black-Scholes Model.")>>)
    /\ pc' = "check"
    /\ UNCHANGED <<argc, argv, stock_price, strike_price, days_to_expiration,
                   volatility, risk_free_rate, cerr, exit_status, calls, fnVars>>

\* The message of line 43.
Usage == "Error: Input [Stock Price ($)] [Strike Price ($)] [Days to Expiration (days)] [Volatility (%)] [Risk-Free Rate of Interest (%)]"

\* lines 42-45
UsageError ==
    /\ pc = "check"
    /\ argc # 6
    /\ cerr' = Append(cerr, Usage)
    /\ exit_status' = <<1>>
    /\ pc' = "exited"
    /\ UNCHANGED <<argc, argv, stock_price, strike_price, days_to_expiration,
                   volatility, risk_free_rate, cout, calls, fnVars>>

\* A faulty variant: extra arguments are accepted.
ArgcOk_AcceptsExtra ==
    /\ pc = "check"
    /\ argc >= 6
    /\ cout' = Write(<<TextLine("")>>)
    /\ pc' = "parse"
    /\ UNCHANGED <<argc, argv, stock_price, strike_price, days_to_expiration,
                   volatility, risk_free_rate, cerr, exit_status, calls, fnVars>>

\* lines 42, 47
ArgcOk ==
    /\ pc = "check"
    /\ argc = 6
    /\ cout' = Write(<<TextLine("")>>)
    /\ pc' = "parse"
    /\ UNCHANGED <<argc, argv, stock_price, strike_price, days_to_expiration,
                   volatility, risk_free_rate, cerr, exit_status, calls, fnVars>>

\* lines 50-54
GetInput ==
    /\ pc = "parse"
    /\ stock_price' = Strtod(argv[1])
    /\ strike_price' = Strtod(argv[2])
    /\ days_to_expiration' = Strtod(argv[3])
    /\ volatility' = Strtod(argv[4])
    /\ risk_free_rate' = Strtod(argv[5])
    /\ pc' = "echo"
    /\ UNCHANGED <<argc, argv, cout, cerr, exit_status, calls, fnVars>>

\* A faulty variant: the inputs are echoed as converted.
EchoInput_Converted ==
    /\ pc = "echo"
    /\ cout' = Write(<<ValueLine("Stock Price: $", stock_price),
                       ValueLine("Strike Price: $", strike_price),
                       ValueLine("Days to Expiration: ", Div(days_to_expiration, FromInt(365))),
                       ValueLine("Volatility: ", Div(volatility, FromInt(100))),
                       ValueLine("Risk-Free Rate of Interest: ", Div(risk_free_rate, FromInt(100))),
                       TextLine("")>>)
    /\ pc' = "convert"
    /\ UNCHANGED <<argc, argv, stock_price, strike_price, days_to_expiration,
                   volatility, risk_free_rate, cerr, exit_status, calls, fnVars>>

\* lines 57-63
EchoInput ==
    /\ pc = "echo"
    /\ cout' = Write(<<ValueLine("Stock Price: $", stock_price),
                       ValueLine("Strike Price: $", strike_price),
                       ValueLine("Days to Expiration: ", days_to_expiration),
                       ValueLine("Volatility: ", volatility),
                       ValueLine("Risk-Free Rate of Interest: ", risk_free_rate),
                       TextLine("")>>)
    /\ pc' = "convert"
    /\ UNCHANGED <<argc, argv, stock_price, strike_price, days_to_expiration,
                   volatility, risk_free_rate, cerr, exit_status, calls, fnVars>>

\* lines 66-69
ToYears(days) == Div(days, FromInt(365))
ToDecimal(percent) == Div(percent, FromInt(100))

ConvertUnits ==
    /\ pc = "convert"
    /\ days_to_expiration' = ToYears(days_to_expiration)
    /\ volatility' = ToDecimal(volatility)
    /\ risk_free_rate' = ToDecimal(risk_free_rate)
    /\ pc' = "format"
    /\ UNCHANGED <<argc, argv, stock_price, strike_price, cout, cerr, exit_status,
                   calls, fnVars>>

\* A faulty variant: the precision is set but not the fixed notation.
SetFormat_PrecisionOnly ==
    /\ pc = "format"
    /\ cout' = [cout EXCEPT !.precision = 2]
    /\ pc' = "call"
    /\ UNCHANGED <<argc, argv, stock_price, strike_price, days_to_expiration,
                   volatility, risk_free_rate, cerr, exit_status, calls, fnVars>>

\* lines 71-72
SetFormat ==
    /\ pc = "format"
    /\ cout' = [cout EXCEPT !.precision = 2, !.floatfield = "fixed"]
    /\ pc' = "call"
    /\ UNCHANGED <<argc, argv, stock_price, strike_price, days_to_expiration,
                   volatility, risk_free_rate, cerr, exit_status, calls, fnVars>>

\* The arguments main passes at lines 73 and 74.
PricingArgs ==
    <<stock_price, strike_price, days_to_expiration, volatility, risk_free_rate>>

\* line 73
PrintCall ==
    /\ pc = "call"
    /\ LET a == PricingArgs
       IN  /\ calls' = Append(calls, Called("calculate_call_price", "main", a))
           /\ cout' = Write(<<ValueLine("Call Option Value: $",
                                calculate_call_price(a[1], a[2], a[3], a[4], a[5]))>>)
    /\ pc' = "put"
    /\ UNCHANGED <<argc, argv, stock_price, strike_price, days_to_expiration,
                   volatility, risk_free_rate, cerr, exit_status, fnVars>>

\* line 74
PrintPut ==
    /\ pc = "put"
    /\ LET a == PricingArgs
       IN  /\ calls' = calls \o
                 <<Called("calculate_put_price", "main", a),
                   Called("calculate_call_price", "calculate_put_price",
                          PutDelegates(a[1], a[2], a[3], a[4], a[5]))>>
           /\ cout' = Write(<<ValueLine("Put Option Value: $",
                                calculate_put_price(a[1], a[2], a[3], a[4], a[5]))>>)
    /\ pc' = "return"
    /\ UNCHANGED <<argc, argv, stock_price, strike_price, days_to_expiration,
                   volatility, risk_free_rate, cerr, exit_status, fnVars>>

\* line 76
Return ==
    /\ pc = "return"
    /\ exit_status' = <<0>>
    /\ pc' = "exited"
    /\ UNCHANGED <<argc, argv, stock_price, strike_price, days_to_expiration,
                   volatility, risk_free_rate, cout, cerr, calls, fnVars>>

Next ==
    \/ Banner
    \/ UsageError
    \/ ArgcOk
    \/ GetInput
    \/ EchoInput
    \/ ConvertUnits
    \/ SetFormat
    \/ PrintCall
    \/ PrintPut
    \/ Return

Spec == Init /\ [][Next]_vars

MainIdle ==
    /\ argc = 1 /\ argv = <<>> /\ pc = "idle"
    /\ stock_price = Unset /\ strike_price = Unset /\ days_to_expiration = Unset
    /\ volatility = Unset /\ risk_free_rate = Unset
    /\ cout = [lines |-> <<>>, precision |-> 6, floatfield |-> "default"]
    /\ cerr = <<>> /\ exit_status = <<>> /\ calls = <<>>

(***************************************************************************)
(* cdf_normal_distribution applied to every finite value of the format,    *)
(* together with a second value: the next value of the format above it, or *)
(* one of a few landmarks.                                                 *)
(***************************************************************************)
FiniteValues ==
    {Fin(s, m * 2^j) : s \in {0, 1}, m \in 0..(2^Precision - 1),
                       j \in 0..(MaxExp - Precision + 1 + FracBits)}

\* The next value of the format above a finite x (x itself at the top).
NextUp(x) ==
    IF x.n = 0 THEN Fin(0, 1)
    ELSE IF x.s = 0
         THEN IF x.n = MaxN THEN x
              ELSE Fin(0, x.n + 2^Max(0, BitLen(x.n) - Precision))
    ELSE Fin(IF x.n = 1 THEN 0 ELSE 1, x.n - 2^Max(0, BitLen(x.n - 1) - Precision))

Landmarks ==
    {FromInt(0), FromInt(1), FromInt(-1), FromInt(2), FromInt(-2), Inf(0), Inf(1),
     Fin(0, MaxN), Fin(1, MaxN)}

CdfInit ==
    /\ value \in FiniteValues
    /\ other \in {NextUp(value)} \cup Landmarks
    /\ results = <<>>
    /\ args = <<>> /\ call_price = Unset /\ put_price = Unset
    /\ MainIdle

EvaluateCdf ==
    /\ results = <<>>
    /\ results' = [at |-> cdf_normal_distribution(value),
                   neg |-> cdf_normal_distribution(Neg(value)),
                   other |-> cdf_normal_distribution(other)]
    /\ UNCHANGED <<value, other, args, call_price, put_price, mainVars>>

CdfNext == EvaluateCdf

SpecCdf == CdfInit /\ [][CdfNext]_vars

(***************************************************************************)
(* calculate_call_price and calculate_put_price applied to valid inputs:   *)
(* S > 0, K > 0, T > 0, sigma > 0, any r.                                  *)
(***************************************************************************)
MaxPrice == 4
MaxRate == 3

Ratio(a, b) == Div(FromInt(a), FromInt(b))

PriceInputs == {Ratio(25 * i, j) : i \in 1..MaxPrice, j \in 1..2}
TimeInputs == {Ratio(1, 4), Ratio(1, 2), FromInt(1), FromInt(2)}
VolatilityInputs == {Ratio(1, 8), Ratio(1, 4), Ratio(1, 2), FromInt(1)}
RateInputs == {Ratio(i, 16) : i \in (0 - 2)..MaxRate}

PriceInit ==
    /\ args \in {<<S, K, T, v, r>> : S \in PriceInputs, K \in PriceInputs,
                    T \in TimeInputs, v \in VolatilityInputs, r \in RateInputs}
    /\ call_price = Unset /\ put_price = Unset
    /\ value = Fin(0, 0) /\ other = Fin(0, 0) /\ results = <<>>
    /\ MainIdle

EvaluateCall ==
    /\ args # <<>>
    /\ call_price = Unset
    /\ call_price' = calculate_call_price(args[1], args[2], args[3], args[4], args[5])
    /\ UNCHANGED <<value, other, results, args, put_price, mainVars>>

EvaluatePut ==
    /\ args # <<>>
    /\ put_price = Unset
    /\ put_price' = calculate_put_price(args[1], args[2], args[3], args[4], args[5])
    /\ UNCHANGED <<value, other, results, args, call_price, mainVars>>

PriceNext == EvaluateCall \/ EvaluatePut

SpecPrice == PriceInit /\ [][PriceNext]_vars

(***************************************************************************)
(* Properties.                                                             *)
(***************************************************************************)
Texts == [i \in 1..Len(cout.lines) |-> cout.lines[i].text]
OptionLines ==
    {i \in 1..Len(cout.lines) :
        cout.lines[i].text \in {"Call Option Value: $", "Put Option Value: $"}}
IsPrefix(a, b) == Len(a) <= Len(b) /\ \A i \in 1..Len(a) : a[i] = b[i]
Finished == pc = "exited"

\* What strtod makes of the five arguments.
Parsed == [i \in 1..5 |-> Strtod(argv[i])]
\* The same, each converted once as lines 66-69 do.
ConvertedOnce ==
    <<Parsed[1], Parsed[2], Div(Parsed[3], FromInt(365)),
      Div(Parsed[4], FromInt(100)), Div(Parsed[5], FromInt(100))>>

\* C1: whenever the argument count is not six (fewer or more), nothing is
\* parsed, no pricing function is called and no option value line is
\* printed, and the run ends with the usage message on standard error and
\* exit status 1.
C1_UsageErrorOnly ==
    argc # 6 =>
        /\ stock_price = Unset /\ strike_price = Unset
        /\ days_to_expiration = Unset /\ volatility = Unset
        /\ risk_free_rate = Unset
        /\ calls = <<>>
        /\ OptionLines = {}
        /\ pc \in {"start", "check", "exited"}
        /\ Finished => cerr = <<Usage>> /\ exit_status = <<1>>
        /\ ~Finished => cerr = <<>> /\ exit_status = <<>>

\* C1 witness: a run with four arguments has ended.
C1_Witness == argc = 5 /\ Finished /\ exit_status = <<1>>

\* C2: on a successful run every pricing function is entered with the
\* arguments converted exactly once (days / 365.0, percentages / 100.0,
\* the two prices as parsed): main's two calls and the call
\* calculate_put_price delegates all receive the same values, the
\* variables hold the converted values from the first call on, and the
\* printed call value is the formula applied to those values.
C2_ConvertedOnceBeforePricing ==
    argc = 6 =>
        /\ \A i \in 1..Len(calls) : calls[i].args = ConvertedOnce
        /\ pc \in {"call", "put", "return", "exited"} => PricingArgs = ConvertedOnce
        /\ pc \in {"start", "check", "parse", "echo", "convert"} => calls = <<>>
        /\ Finished =>
              /\ [i \in 1..Len(calls) |-> <<calls[i].fn, calls[i].caller>>] =
                    << <<"calculate_call_price", "main">>,
                       <<"calculate_put_price", "main">>,
                       <<"calculate_call_price", "calculate_put_price">> >>
              /\ cout.lines[9].val =
                    <<Sub(Mul(cdf_normal_distribution(
                                  BS_d1(ConvertedOnce[1], ConvertedOnce[2], ConvertedOnce[3],
                                        ConvertedOnce[4], ConvertedOnce[5])),
                              ConvertedOnce[1]),
                          Mul(Mul(cdf_normal_distribution(
                                      BS_d2(BS_d1(ConvertedOnce[1], ConvertedOnce[2],
                                                  ConvertedOnce[3], ConvertedOnce[4],
                                                  ConvertedOnce[5]),
                                            ConvertedOnce[3], ConvertedOnce[4])),
                                  ConvertedOnce[2]),
                              Exp(Mul(Neg(ConvertedOnce[5]), ConvertedOnce[3]))))>>

\* C2 witness: a successful run has ended whose three conversions each
\* changed the value parsed.
C2_Witness ==
    /\ argc = 6 /\ Finished /\ Len(calls) = 3
    /\ \A i \in 3..5 : IsFinite(Parsed[i]) /\ calls[1].args[i] # Parsed[i]

\* C3 (as amended): for valid inputs the put price equals the call price
\* computed separately for the same inputs, plus K / exp(r*T), minus S,
\* bit for bit.
C3_ParityAsImplemented ==
    (call_price # Unset /\ put_price # Unset) =>
        put_price = Sub(Add(call_price, Div(args[2], Exp(Mul(args[5], args[3])))),
                        args[1])

\* C3 (as stated): for valid inputs the put price equals the call price
\* plus K * exp(-r*T), minus S, bit for bit.
C3_ParityAsStated ==
    (call_price # Unset /\ put_price # Unset) =>
        put_price = Sub(Add(call_price, Mul(args[2], Exp(Mul(Neg(args[5]), args[3])))),
                        args[1])

\* C3 witness: both prices have been computed for valid inputs, they are
\* finite, and the put differs from the call.
C3_Witness ==
    /\ call_price # Unset /\ put_price # Unset
    /\ IsFinite(call_price) /\ IsFinite(put_price)
    /\ Lt(FromInt(0), call_price) /\ Lt(FromInt(0), put_price)
    /\ put_price # call_price

\* The lines of a successful run, in order.
SuccessTexts ==
    <<"Options pricing calculator based on the Black-Scholes Model.", "",
      "Stock Price: $", "Strike Price: $", "Days to Expiration: ", "Volatility: ",
      "Risk-Free Rate of Interest: ", "",
      "Call Option Value: $", "Put Option Value: $">>

\* C4: on a run with five arguments the output grows in this order: the
\* five inputs echoed (stock price, strike price, days, volatility, rate),
\* then the call line, then the put line, each once and each option value
\* in fixed notation with precision 2; the run ends with status 0.
C4_OutputOrder ==
    argc = 6 =>
        /\ IsPrefix(Texts, SuccessTexts)
        /\ \A i \in OptionLines :
              /\ cout.lines[i].floatfield = "fixed"
              /\ cout.lines[i].precision = 2
              /\ Len(cout.lines[i].val) = 1
        /\ pc = "put" => Len(cout.lines) = 9
        /\ pc = "return" => Len(cout.lines) = 10
        /\ Finished => Texts = SuccessTexts /\ exit_status = <<0>>
        /\ ~Finished => exit_status = <<>>

\* C4 witness: a run with five arguments has ended after printing both
\* option lines.
C4_Witness == argc = 6 /\ Finished /\ Cardinality(OptionLines) = 2

\* C5: no run with five arguments takes an error path, whatever the
\* values: nothing is written to standard error, both pricing functions
\* are called, both lines are printed with the value the function returns
\* (NaN when T = 0 and S = K), and the exit status is 0.
C5_NoValidation ==
    argc = 6 =>
        /\ cerr = <<>>
        /\ exit_status \in {<<>>, <<0>>}
        /\ Finished =>
              /\ exit_status = <<0>>
              /\ Len(calls) = 3
              /\ Len(cout.lines) = 10
              /\ cout.lines[9].text = "Call Option Value: $"
              /\ cout.lines[10].text = "Put Option Value: $"
              /\ (IsZero(ConvertedOnce[3]) /\ Parsed[1] = Parsed[2]) =>
                    /\ cout.lines[9].val = <<NaN>>
                    /\ cout.lines[10].val = <<NaN>>
              /\ (IsZero(ConvertedOnce[4]) /\ Parsed[1] = Parsed[2]
                    /\ IsZero(ConvertedOnce[5])) =>
                    /\ cout.lines[9].val = <<NaN>>
                    /\ cout.lines[10].val = <<NaN>>

\* C5 witness: a run whose time to expiration is 0 and whose other inputs
\* are valid has ended with status 0 after printing NaN as the call value.
C5_Witness ==
    /\ argc = 6 /\ Finished /\ exit_status = <<0>>
    /\ IsZero(ConvertedOnce[3])
    /\ Lt(FromInt(0), Parsed[1]) /\ Lt(FromInt(0), Parsed[4])
    /\ cout.lines[9].val = <<NaN>>

\* C6: an argument on which strtod performs no conversion is taken as
\* +0.0: it is echoed as 0, every argument's value is what strtod makes of
\* that argument alone, nothing is written to standard error and the run
\* goes on to price and exits with status 0.
C6_MalformedIsZero ==
    argc = 6 =>
        /\ cerr = <<>>
        /\ pc = "echo" => PricingArgs = <<Parsed[1], Parsed[2], Parsed[3], Parsed[4], Parsed[5]>>
        /\ \A i \in 1..5 :
              ~Converts(argv[i]) =>
                  /\ pc = "echo" => PricingArgs[i] = Fin(0, 0)
                  /\ Len(cout.lines) >= 2 + i => cout.lines[2 + i].val = <<Fin(0, 0)>>
                  /\ Finished => Len(calls) = 3 /\ exit_status = <<0>>
                                    /\ Cardinality(OptionLines) = 2

\* C6 witness: a run whose strike price argument is the empty string and
\* whose rate argument is "%" has ended.
C6_Witness ==
    /\ argc = 6 /\ Finished
    /\ argv[2] = <<>> /\ ~Converts(argv[5]) /\ Converts(argv[1])

\* C8: for valid inputs the call price is finite and not negative.
C8_CallFiniteNonNegative ==
    call_price # Unset => IsFinite(call_price) /\ Le(FromInt(0), call_price)

\* C9: cdf_normal_distribution returns a value in [0, 1], is monotonically
\* non-decreasing, satisfies cdf(x) + cdf(-x) = 1 for every finite x and
\* returns 0.5 at 0.
C9_CdfProperties ==
    results # <<>> =>
        /\ Le(FromInt(0), results.at) /\ Le(results.at, FromInt(1))
        /\ Le(FromInt(0), results.other) /\ Le(results.other, FromInt(1))
        /\ Le(value, other) => Le(results.at, results.other)
        /\ Le(other, value) => Le(results.other, results.at)
        /\ Add(results.at, results.neg) = FromInt(1)
        /\ IsZero(value) => results.at = Half

\* C9 witness: the function has been evaluated at a negative x and at a
\* larger value, and returned a larger value strictly between 0 and 1.
C9_Witness ==
    /\ results # <<>>
    /\ Lt(value, FromInt(0)) /\ Lt(value, other)
    /\ Lt(FromInt(0), results.at) /\ Lt(results.at, results.other)
    /\ Lt(results.other, FromInt(1))

\* C10: the five values echoed are the values parsed, in their original
\* units, whatever the variables hold later; the two prices reach the
\* pricing functions as parsed.
C10_EchoBeforeConversion ==
    (argc = 6 /\ Len(cout.lines) >= 8) =>
        /\ \A i \in 1..5 :
              /\ cout.lines[2 + i].val = <<Parsed[i]>>
              /\ cout.lines[2 + i].floatfield = "default"
              /\ cout.lines[2 + i].precision = 6
        /\ stock_price = Parsed[1] /\ strike_price = Parsed[2]
        /\ \A i \in 1..Len(calls) :
              calls[i].args[1] = Parsed[1] /\ calls[i].args[2] = Parsed[2]

\* C10 witness: a run has ended whose echoed days, volatility and rate all
\* differ from the values the pricing functions received.
C10_Witness ==
    /\ argc = 6 /\ Finished /\ Len(calls) = 3
    /\ \A i \in 3..5 : cout.lines[2 + i].val # <<calls[1].args[i]>>
====
